---- MODULE Spec2Model ----
(***************************************************************************)
(* A model of mongodb_backup.py: the export of MongoDB collections to JSON *)
(* files.  Strings are sequences of one-character strings, so that the     *)
(* code's replace, split and substring tests are computed, not assumed.    *)
(*                                                                         *)
(*   Spec        a run of main(): connect, one of the five modes, close    *)
(*   SpecExport  one direct call of MongoDBBackup.export_collection        *)
(*   SpecMask    one call of MongoDBBackup._mask_connection_string         *)
(***************************************************************************)
EXTENDS Integers, Sequences, FiniteSets, TLC

VARIABLES
    pc,                 \* position of the run
    args,               \* the parsed command line (mode and its operand)
    client,             \* self.client: "None", "open" or "closed"
    exitCode,           \* process exit status, -1 while running
    error,              \* what ended the run abnormally, "none" otherwise
    dbQueue,            \* databases the mode's outer loop has still to visit
    curDb,              \* database of the inner loop
    collQueue,          \* collections the inner loop has still to export
    specQueue,          \* --collections entries still to handle
    total_collections,  \* the modes' counter of attempted jobs
    successful,         \* the modes' counter of successful jobs
    jobs,               \* the export jobs run so far, in order
    warnings,           \* warnings printed so far, by kind
    tally,              \* the final "Export complete" line, if printed
    now,                \* wall clock, in seconds
    fs,                 \* the export folder: set of [path, content] files
    last,               \* outcome of the latest export_collection call
    target,             \* connection target handed to the masking function
    masked              \* what the masking function returned for it

vars == <<pc, args, client, exitCode, error, dbQueue, curDb, collQueue,
          specQueue, total_collections, successful, jobs, warnings, tally,
          now, fs, last, target, masked>>

(***************************************************************************)
(* Bounds                                                                  *)
(***************************************************************************)
MaxDocs == 2        \* longest cursor result of a direct export call
MaxArgs == 2        \* longest --databases / --collections list
MaxClock == 1       \* last second of the wall clock
MaxPart == 2        \* longest user name, password or path of a target

\* "if total_count > 10000": the count above which a job streams
Threshold == 10000

(***************************************************************************)
(* Python string primitives                                                *)
(***************************************************************************)
SeqsUpTo(S, n) == UNION {[1..k -> S] : k \in 0..n}

Min(a, b) == IF a <= b THEN a ELSE b

\* sub occurs in s at position i
OccursAt(s, sub, i) ==
    /\ i >= 1
    /\ i + Len(sub) - 1 <= Len(s)
    /\ \A j \in 1..Len(sub) : s[i + j - 1] = sub[j]

\* Python: sub in s
Contains(s, sub) == \E i \in 1..(Len(s) + 1) : OccursAt(s, sub, i)

\* position of the first occurrence of sub in s, 0 when there is none
Find(s, sub) ==
    IF Contains(s, sub)
    THEN CHOOSE i \in 1..(Len(s) + 1) :
            /\ OccursAt(s, sub, i)
            /\ \A j \in 1..(i - 1) : ~OccursAt(s, sub, j)
    ELSE 0

\* Python: s.split(sep, 1)
SplitFirst(s, sep) ==
    LET i == Find(s, sep) IN
    IF i = 0 THEN <<s>>
    ELSE <<SubSeq(s, 1, i - 1), SubSeq(s, i + Len(sep), Len(s))>>

\* Python: s.split(sep)
RECURSIVE Split(_, _)
Split(s, sep) ==
    LET i == Find(s, sep) IN
    IF i = 0 THEN <<s>>
    ELSE <<SubSeq(s, 1, i - 1)>> \o Split(SubSeq(s, i + Len(sep), Len(s)), sep)

\* Python: s.replace(old, new) for a one-character old
Replace(s, old, new) == [i \in 1..Len(s) |-> IF s[i] = old THEN new ELSE s[i]]

(***************************************************************************)
(* Documents and their JSON rendering                                      *)
(***************************************************************************)
\* A document is reduced to one field value: a native JSON string, or a
\* BSON value json cannot encode (an ObjectId), which default=str renders.
Documents == {[type |-> "str", v |-> "x"], [type |-> "ObjectId", v |-> "y"]}

\* json.dump(..., default=str): the value a field is written as
Default(o) == [type |-> "str", v |-> o.v]

\* the JSON text of a document's field
Encode(doc) == IF doc.type = "str" THEN doc.v ELSE Default(doc).v

Indent(level) == [i \in 1..level |-> "  "]

\* json.dump(doc, indent=2) of one document at a nesting level
DumpDoc(doc, level) ==
    <<"{", "\n">> \o Indent(level + 1) \o <<Encode(doc)>> \o <<"\n">>
        \o Indent(level) \o <<"}">>

\* the elements of json.dump(documents, indent=2), before the closing bracket
RECURSIVE BulkItems(_)
BulkItems(docs) ==
    IF docs = <<>> THEN <<>>
    ELSE LET n == Len(docs) IN
         BulkItems(SubSeq(docs, 1, n - 1))
            \o (IF n > 1 THEN <<",">> ELSE <<>>)
            \o <<"\n">> \o Indent(1) \o DumpDoc(docs[n], 1)

\* json.dump(documents, f, indent=2, default=str, ensure_ascii=False)
BulkContent(docs) ==
    IF docs = <<>> THEN <<"[", "]">>
    ELSE <<"[">> \o BulkItems(docs) \o <<"\n", "]">>

\* the streaming loop without its "if not first: f.write(',\n')"
RECURSIVE StreamingItemsNoSeparator(_)
StreamingItemsNoSeparator(docs) ==
    IF docs = <<>> THEN <<>>
    ELSE LET n == Len(docs) IN
         StreamingItemsNoSeparator(SubSeq(docs, 1, n - 1)) \o DumpDoc(docs[n], 0)

\* what the streaming loop writes for the documents the cursor yielded
RECURSIVE StreamingItems(_)
StreamingItems(docs) ==
    IF docs = <<>> THEN <<>>
    ELSE LET n == Len(docs) IN
         StreamingItems(SubSeq(docs, 1, n - 1))
            \o (IF n > 1 THEN <<",", "\n">> ELSE <<>>)
            \o DumpDoc(docs[n], 0)

\* the file _export_collection_streaming leaves when the cursor is exhausted
StreamingContent(docs) == <<"[", "\n">> \o StreamingItems(docs) \o <<"\n", "]">>

(***************************************************************************)
(* Reading a file back: json.load                                          *)
(***************************************************************************)
Whitespace == {"\n", "  "}

Structural == {"[", "]", "{", "}", ","}

StripWhitespace(toks) == SelectSeq(toks, LAMBDA t : t \notin Whitespace)

Invalid == [valid |-> FALSE, items |-> <<>>]

\* the elements after an opening bracket, up to the closing one
RECURSIVE ParseItems(_)
ParseItems(toks) ==
    IF Len(toks) < 4 THEN Invalid
    ELSE IF ~(toks[1] = "{" /\ toks[2] \notin Structural /\ toks[3] = "}")
         THEN Invalid
    ELSE IF toks[4] = "]"
         THEN IF Len(toks) = 4
              THEN [valid |-> TRUE, items |-> <<toks[2]>>]
              ELSE Invalid
    ELSE IF toks[4] = ","
         THEN LET rest == ParseItems(SubSeq(toks, 5, Len(toks))) IN
              IF rest.valid
              THEN [valid |-> TRUE, items |-> <<toks[2]>> \o rest.items]
              ELSE Invalid
    ELSE Invalid

\* json.load of a file's text: the array's elements, or not a JSON array
Parse(content) ==
    LET toks == StripWhitespace(content) IN
    IF toks = <<"[", "]">> THEN [valid |-> TRUE, items |-> <<>>]
    ELSE IF Len(toks) >= 1 /\ toks[1] = "["
         THEN ParseItems(SubSeq(toks, 2, Len(toks)))
         ELSE Invalid

(***************************************************************************)
(* File names                                                              *)
(***************************************************************************)
\* datetime.now().strftime("%Y%m%d_%H%M%S"): second resolution, fixed width
Strftime(t) == <<"D", "_", ToString(t)>>

ExportFolder == <<"exports">>

SafeName(name) == Replace(Replace(name, "/", "_"), "\\", "_")

\* f"{safe_db_name}_{safe_collection_name}_{timestamp}.json"
MakeFilename(db, coll, t) ==
    SafeName(db) \o <<"_">> \o SafeName(coll) \o <<"_">> \o Strftime(t)
        \o <<".json">>

\* self.export_folder / filename
FilePath(db, coll, t) == ExportFolder \o <<"/">> \o MakeFilename(db, coll, t)

\* open(filepath, 'w') followed by writes: the file is created or truncated
WriteFile(files, path, content) ==
    {f \in files : f.path # path} \cup {[path |-> path, content |-> content]}

FileAt(files, path) == {f \in files : f.path = path}

(***************************************************************************)
(* export_collection                                                       *)
(***************************************************************************)
\* What the server and the file system do during one job: the count
\* returned at job start, the documents the cursor yields (the collection
\* may be written to between the two), the operation that fails if any,
\* and how many documents had reached the file when a write failed.
Faults == {"none", "count", "open", "cursor", "write"}

\* counts a direct call is tried on, around the strategy threshold
Counts == (0..MaxDocs) \cup {Threshold, Threshold + 1}

WellFormedEnv(e) ==
    /\ e.wrote <= Len(e.docs)
    /\ (e.fault # "write") => (e.wrote = Len(e.docs))

Envs(counts, cursors, maxWrote) ==
    {e \in [count : counts, docs : cursors, fault : Faults,
            wrote : 0..maxWrote] : WellFormedEnv(e)}

\* what a direct call may meet: any count with any short cursor result
CallEnvs == Envs(Counts, SeqsUpTo(Documents, MaxDocs), MaxDocs)

\* the exception class each failing operation raises
ExceptionOf(fault) ==
    IF fault \in {"count", "cursor"} THEN "PyMongoError" ELSE "OSError"

\* an except clause that names the driver's errors only
HandlesPyMongoOnly(exc) == exc = "PyMongoError"

\* except Exception as e
Handles(exc) == exc \in {"PyMongoError", "OSError"}

\* the threshold test with >= in place of >
UseStreamingAtThreshold(total_count, show_progress) ==
    total_count >= Threshold /\ show_progress

\* if total_count > 10000 and show_progress
UseStreaming(total_count, show_progress) ==
    total_count > Threshold /\ show_progress

\* the emptiness test with < in place of ==
IsEmptyNegative(total_count) == total_count < 0

\* if total_count == 0
IsEmpty(total_count) == total_count = 0

\* the number in the "Exported N documents" line
Reported(total_count, exported) == total_count

Outcome(ok, raised, count, strategy, path, files, opened, reported, docs) ==
    [ok |-> ok, raised |-> raised, count |-> count, strategy |-> strategy,
     path |-> path, files |-> files, opened |-> opened,
     reported |-> reported, docs |-> docs]

\* the except clause: print the error and return False, or propagate
Failed(fault, count, strategy, path, files, opened) ==
    Outcome(FALSE, ~Handles(ExceptionOf(fault)), count, strategy, path,
            files, opened, -1, <<>>)

\* _export_collection_streaming: the file is opened first, then the cursor
StreamingExport(env, path, files) ==
    IF env.fault = "open"
    THEN Failed("open", env.count, "streaming", path, files, FALSE)
    ELSE IF env.fault \in {"cursor", "write"}
    THEN Failed(env.fault, env.count, "streaming", path,
                WriteFile(files, path,
                          <<"[", "\n">>
                              \o StreamingItems(SubSeq(env.docs, 1, env.wrote))),
                TRUE)
    ELSE Outcome(TRUE, FALSE, env.count, "streaming", path,
                 WriteFile(files, path, StreamingContent(env.docs)), TRUE,
                 Reported(env.count, Len(env.docs)), env.docs)

\* the bulk branch: list(collection.find()) first, then open and json.dump
BulkExport(env, path, files) ==
    IF env.fault = "cursor"
    THEN Failed("cursor", env.count, "bulk", path, files, FALSE)
    ELSE IF env.fault = "open"
    THEN Failed("open", env.count, "bulk", path, files, FALSE)
    ELSE IF env.fault = "write"
    THEN Failed("write", env.count, "bulk", path,
                WriteFile(files, path,
                          <<"[">> \o BulkItems(SubSeq(env.docs, 1, env.wrote))),
                TRUE)
    ELSE Outcome(TRUE, FALSE, env.count, "bulk", path,
                 WriteFile(files, path, BulkContent(env.docs)), TRUE,
                 Reported(env.count, Len(env.docs)), env.docs)

ExportCollection(db, coll, show_progress, env, t, files) ==
    IF env.fault = "count"
    THEN Failed("count", -1, "none", <<>>, files, FALSE)
    ELSE IF IsEmpty(env.count)
    THEN Outcome(TRUE, FALSE, env.count, "none", <<>>, files, FALSE, -1, <<>>)
    ELSE LET path == FilePath(db, coll, t) IN
         IF UseStreaming(env.count, show_progress)
         THEN StreamingExport(env, path, files)
         ELSE BulkExport(env, path, files)

(***************************************************************************)
(* The server's catalog and the command line                               *)
(***************************************************************************)
Admin == <<"a", "d", "m", "i", "n">>

Config == <<"c", "o", "n", "f", "i", "g">>

Local == <<"l", "o", "c", "a", "l">>

DbAB == <<"a", "_", "b">>

DbA == <<"a">>

DbE == <<"e">>

DbZ == <<"z">>

\* self.client.list_database_names()
get_databases == <<Admin, DbAB, DbA, DbE>>

\* self.client[database_name].list_collection_names()
get_collections(database_name) ==
    IF database_name = Admin THEN << <<"s">> >>
    ELSE IF database_name = DbAB THEN << <<"c">> >>
    ELSE IF database_name = DbA THEN << <<"b", "/", "c">> >>
    ELSE <<>>

\* collection.find(): the documents the server holds in a collection
find(database_name, collection_name) ==
    IF database_name = DbAB /\ collection_name = <<"c">>
    THEN <<[type |-> "str", v |-> "x"]>>
    ELSE IF database_name = DbA /\ collection_name = <<"b", "/", "c">>
    THEN <<[type |-> "ObjectId", v |-> "y"]>>
    ELSE <<>>

\* what a job of a run may meet: the collection's documents, counted as
\* they are, as none or as a large number (the collection is written to
\* between the count and the read), and any failure
RunEnvs(database_name, collection_name) ==
    LET docs == find(database_name, collection_name) IN
    Envs({0, Len(docs), Threshold + 1}, {docs}, Len(docs))

InSeq(x, s) == \E i \in 1..Len(s) : s[i] = x

\* --database / --databases operands; "z" is not on the server
DbOperands == {DbAB, DbA, DbE, DbZ}

\* --collection / --collections operands: "a_b.c", "a.q.r", "bad"
SpecOperands ==
    {<<"a", "_", "b", ".", "c">>, <<"a", ".", "q", ".", "r">>,
     <<"b", "a", "d">>}

NoArgs ==
    [mode |-> "all", database |-> <<>>, databases |-> <<>>,
     collection |-> <<>>, collections |-> <<>>]

\* the mutually exclusive export group of the argument parser
ArgSets ==
    {NoArgs}
    \cup {[NoArgs EXCEPT !.mode = "database", !.database = d] :
            d \in DbOperands}
    \cup {[NoArgs EXCEPT !.mode = "databases", !.databases = ds] :
            ds \in SeqsUpTo(DbOperands, MaxArgs) \ {<<>>}}
    \cup {[NoArgs EXCEPT !.mode = "collection", !.collection = c] :
            c \in SpecOperands}
    \cup {[NoArgs EXCEPT !.mode = "collections", !.collections = cs] :
            cs \in SeqsUpTo(SpecOperands, MaxArgs) \ {<<>>}}

NoTally == [kind |-> "none", successful |-> 0, attempted |-> 0]

NoLast ==
    [db |-> <<>>, coll |-> <<>>, show_progress |-> TRUE, ok |-> FALSE,
     raised |-> FALSE, count |-> -1, strategy |-> "none", path |-> <<>>,
     opened |-> FALSE, reported |-> -1, docs |-> <<>>]

LastOf(db, coll, show_progress, r) ==
    [db |-> db, coll |-> coll, show_progress |-> show_progress, ok |-> r.ok,
     raised |-> r.raised, count |-> r.count, strategy |-> r.strategy,
     path |-> r.path, opened |-> r.opened, reported |-> r.reported,
     docs |-> r.docs]

JobOf(db, coll, r) ==
    [db |-> db, coll |-> coll, ok |-> r.ok, path |-> r.path,
     opened |-> r.opened]

(***************************************************************************)
(* main(): connect, run the selected mode, close                           *)
(***************************************************************************)
Init ==
    /\ pc = "start"
    /\ args \in ArgSets
    /\ client = "None"
    /\ exitCode = -1
    /\ error = "none"
    /\ dbQueue = <<>>
    /\ curDb = <<>>
    /\ collQueue = <<>>
    /\ specQueue = <<>>
    /\ total_collections = 0
    /\ successful = 0
    /\ jobs = <<>>
    /\ warnings = [invalid |-> 0, notfound |-> 0, nocollections |-> 0]
    /\ tally = NoTally
    /\ now = 0
    /\ fs = {}
    /\ last = NoLast
    /\ target = <<>>
    /\ masked = <<>>

\* MongoDBBackup.close
Close(handle) == IF handle = "None" THEN "None" ELSE "closed"

\* the finally clause of main and the end of the process
Finally(code, err) ==
    /\ client' = Close(client)
    /\ pc' = "exited"
    /\ exitCode' = code
    /\ error' = err

\* connect() returns True
ConnectOk ==
    /\ pc = "start"
    /\ client' = "open"
    /\ pc' = "connected"
    /\ UNCHANGED <<args, exitCode, error, dbQueue, curDb, collQueue,
                   specQueue, total_collections, successful, jobs, warnings,
                   tally, now, fs, last, target, masked>>

\* the ping fails: connect() returns False and main calls sys.exit(1)
ConnectFail ==
    /\ pc = "start"
    /\ client' = "open"
    /\ pc' = "exited"
    /\ exitCode' = 1
    /\ error' = "connect"
    /\ UNCHANGED <<args, dbQueue, curDb, collQueue, specQueue,
                   total_collections, successful, jobs, warnings, tally, now,
                   fs, last, target, masked>>

\* MongoClient(...) rejects the connection string, or the ping raises an
\* error connect() does not catch: the exception leaves main
ConnectRaise ==
    /\ pc = "start"
    /\ \E created \in BOOLEAN : client' = IF created THEN "open" ELSE "None"
    /\ pc' = "exited"
    /\ exitCode' = 1
    /\ error' = "exception"
    /\ UNCHANGED <<args, dbQueue, curDb, collQueue, specQueue,
                   total_collections, successful, jobs, warnings, tally, now,
                   fs, last, target, masked>>

\* one call self.export_collection(db, coll) from a mode; what the clock and
\* the files become, and the job's record
RunJob(db, coll, r, t) ==
    /\ now' = t
    /\ fs' = r.files
    /\ last' = LastOf(db, coll, TRUE, r)
    /\ jobs' = Append(jobs, JobOf(db, coll, r))

JobChoice(db, coll, env, tick) ==
    ExportCollection(db, coll, TRUE, env, Min(now + tick, MaxClock), fs)

SystemDatabases == {Admin, Config, Local}

Bump(w, kind) == [w EXCEPT ![kind] = @ + 1]

Counted(ok) == IF ok THEN 1 ELSE 0

\* export_all_collections, up to its loop: list and filter the databases
ExportAllBegin ==
    /\ pc = "connected"
    /\ args.mode = "all"
    /\ dbQueue' = SelectSeq(get_databases, LAMBDA db : db \notin SystemDatabases)
    /\ total_collections' = 0
    /\ successful' = 0
    /\ pc' = "dbloop"
    /\ UNCHANGED <<args, client, exitCode, error, curDb, collQueue, specQueue,
                   jobs, warnings, tally, now, fs, last, target, masked>>

\* export_databases, up to its loop
ExportDatabasesBegin ==
    /\ pc = "connected"
    /\ args.mode = "databases"
    /\ dbQueue' = args.databases
    /\ total_collections' = 0
    /\ successful' = 0
    /\ pc' = "dbloop"
    /\ UNCHANGED <<args, client, exitCode, error, curDb, collQueue, specQueue,
                   jobs, warnings, tally, now, fs, last, target, masked>>

\* one turn of the outer loop "for db_name in ...": skip a database that is
\* not available (export_databases only), else list its collections
NextDatabase ==
    /\ pc = "dbloop"
    /\ dbQueue # <<>>
    /\ LET db_name == Head(dbQueue) IN
        /\ dbQueue' = Tail(dbQueue)
        /\ IF args.mode = "databases" /\ ~InSeq(db_name, get_databases)
           THEN /\ warnings' = Bump(warnings, "notfound")
                /\ UNCHANGED <<pc, curDb, collQueue>>
           ELSE /\ UNCHANGED warnings
                /\ IF get_collections(db_name) # <<>>
                   THEN /\ curDb' = db_name
                        /\ collQueue' = get_collections(db_name)
                        /\ pc' = "collloop"
                   ELSE UNCHANGED <<pc, curDb, collQueue>>
    /\ UNCHANGED <<args, client, exitCode, error, specQueue,
                   total_collections, successful, jobs, tally, now, fs, last,
                   target, masked>>

\* one turn of the inner loop "for collection_name in collections"
ExportNext ==
    /\ pc = "collloop"
    /\ collQueue # <<>>
    /\ \E env \in RunEnvs(curDb, Head(collQueue)), tick \in 0..1 :
        LET r == JobChoice(curDb, Head(collQueue), env, tick) IN
        /\ RunJob(curDb, Head(collQueue), r, Min(now + tick, MaxClock))
        /\ IF r.raised
           THEN /\ Finally(1, "job")
                /\ UNCHANGED <<collQueue, total_collections, successful>>
           ELSE /\ collQueue' = Tail(collQueue)
                /\ total_collections' =
                       IF args.mode = "database" THEN total_collections
                       ELSE total_collections + 1
                /\ successful' = successful + Counted(r.ok)
                /\ pc' = IF Tail(collQueue) = <<>> THEN "dbloop" ELSE "collloop"
                /\ UNCHANGED <<client, exitCode, error>>
    /\ UNCHANGED <<args, dbQueue, curDb, specQueue, warnings, tally, target,
                   masked>>

\* after the loops: the "Export complete: s/t" line, return, finally
FinishLoop ==
    /\ pc = "dbloop"
    /\ dbQueue = <<>>
    /\ tally' = [kind |-> "counts", successful |-> successful,
                 attempted |-> total_collections]
    /\ Finally(0, "none")
    /\ UNCHANGED <<args, dbQueue, curDb, collQueue, specQueue,
                   total_collections, successful, jobs, warnings, now, fs,
                   last, target, masked>>

\* export_database returns early: unknown database, or no collections
ExportDatabaseNone ==
    /\ pc = "connected"
    /\ args.mode = "database"
    /\ \/ ~InSeq(args.database, get_databases)
       \/ get_collections(args.database) = <<>>
    /\ warnings' = IF ~InSeq(args.database, get_databases)
                   THEN Bump(warnings, "notfound")
                   ELSE Bump(warnings, "nocollections")
    /\ Finally(0, "none")
    /\ UNCHANGED <<args, dbQueue, curDb, collQueue, specQueue,
                   total_collections, successful, jobs, tally, now, fs, last,
                   target, masked>>

\* export_database, up to its loop; total_collections holds len(collections)
ExportDatabaseBegin ==
    /\ pc = "connected"
    /\ args.mode = "database"
    /\ InSeq(args.database, get_databases)
    /\ get_collections(args.database) # <<>>
    /\ curDb' = args.database
    /\ collQueue' = get_collections(args.database)
    /\ total_collections' = Len(get_collections(args.database))
    /\ successful' = 0
    /\ dbQueue' = <<>>
    /\ pc' = "collloop"
    /\ UNCHANGED <<args, client, exitCode, error, specQueue, jobs, warnings,
                   tally, now, fs, last, target, masked>>

\* --collection without a '.': main prints the usage error and exits 1
\* from inside the try block
ExportCollectionUsage ==
    /\ pc = "connected"
    /\ args.mode = "collection"
    /\ ~Contains(args.collection, <<".">>)
    /\ Finally(1, "usage")
    /\ UNCHANGED <<args, dbQueue, curDb, collQueue, specQueue,
                   total_collections, successful, jobs, warnings, tally, now,
                   fs, last, target, masked>>

\* export_collection_specific returns early: database or collection unknown
ExportCollectionNotFound ==
    /\ pc = "connected"
    /\ args.mode = "collection"
    /\ Contains(args.collection, <<".">>)
    /\ LET parts == SplitFirst(args.collection, <<".">>) IN
        \/ ~InSeq(parts[1], get_databases)
        \/ ~InSeq(parts[2], get_collections(parts[1]))
    /\ warnings' = Bump(warnings, "notfound")
    /\ Finally(0, "none")
    /\ UNCHANGED <<args, dbQueue, curDb, collQueue, specQueue,
                   total_collections, successful, jobs, tally, now, fs, last,
                   target, masked>>

\* export_collection_specific runs its one job
ExportCollectionSpecific ==
    /\ pc = "connected"
    /\ args.mode = "collection"
    /\ Contains(args.collection, <<".">>)
    /\ LET parts == SplitFirst(args.collection, <<".">>) IN
        /\ InSeq(parts[1], get_databases)
        /\ InSeq(parts[2], get_collections(parts[1]))
        /\ \E env \in RunEnvs(parts[1], parts[2]), tick \in 0..1 :
            LET r == JobChoice(parts[1], parts[2], env, tick) IN
            /\ RunJob(parts[1], parts[2], r, Min(now + tick, MaxClock))
            /\ tally' = IF r.ok
                        THEN [kind |-> "complete", successful |-> 0,
                              attempted |-> 0]
                        ELSE tally
            /\ IF r.raised THEN Finally(1, "job") ELSE Finally(0, "none")
    /\ UNCHANGED <<args, dbQueue, curDb, collQueue, specQueue,
                   total_collections, successful, warnings, target, masked>>

\* export_collections_specific, up to its loop
ExportCollectionsBegin ==
    /\ pc = "connected"
    /\ args.mode = "collections"
    /\ specQueue' = args.collections
    /\ successful' = 0
    /\ pc' = "specloop"
    /\ UNCHANGED <<args, client, exitCode, error, dbQueue, curDb, collQueue,
                   total_collections, jobs, warnings, tally, now, fs, last,
                   target, masked>>

\* one turn of "for spec in collection_specs": an entry without '.'
InvalidSpec ==
    /\ pc = "specloop"
    /\ specQueue # <<>>
    /\ ~Contains(Head(specQueue), <<".">>)
    /\ warnings' = Bump(warnings, "invalid")
    /\ specQueue' = Tail(specQueue)
    /\ UNCHANGED <<pc, args, client, exitCode, error, dbQueue, curDb,
                   collQueue, total_collections, successful, jobs, tally, now,
                   fs, last, target, masked>>

\* one turn of "for spec in collection_specs": split and export
ExportSpec ==
    /\ pc = "specloop"
    /\ specQueue # <<>>
    /\ Contains(Head(specQueue), <<".">>)
    /\ LET parts == SplitFirst(Head(specQueue), <<".">>) IN
        \E env \in RunEnvs(parts[1], parts[2]), tick \in 0..1 :
            LET r == JobChoice(parts[1], parts[2], env, tick) IN
            /\ RunJob(parts[1], parts[2], r, Min(now + tick, MaxClock))
            /\ IF r.raised
               THEN /\ Finally(1, "job")
                    /\ UNCHANGED <<specQueue, successful>>
               ELSE /\ specQueue' = Tail(specQueue)
                    /\ successful' = successful + Counted(r.ok)
                    /\ UNCHANGED <<pc, client, exitCode, error>>
    /\ UNCHANGED <<args, dbQueue, curDb, collQueue, total_collections,
                   warnings, tally, target, masked>>

\* after the loop: "Export complete: {successful}/{len(collection_specs)}"
FinishSpecs ==
    /\ pc = "specloop"
    /\ specQueue = <<>>
    /\ tally' = [kind |-> "counts", successful |-> successful,
                 attempted |-> Len(args.collections)]
    /\ Finally(0, "none")
    /\ UNCHANGED <<args, dbQueue, curDb, collQueue, specQueue,
                   total_collections, successful, jobs, warnings, now, fs,
                   last, target, masked>>

\* a catalog call (list_database_names, list_collection_names) raises: the
\* exception leaves the mode and main, through the finally clause
CatalogError ==
    /\ \/ /\ pc = "connected"
          /\ \/ args.mode \in {"all", "database", "databases"}
             \/ args.mode = "collection" /\ Contains(args.collection, <<".">>)
       \/ /\ pc = "dbloop"
          /\ dbQueue # <<>>
          /\ args.mode = "databases" => InSeq(Head(dbQueue), get_databases)
    /\ Finally(1, "exception")
    /\ UNCHANGED <<args, dbQueue, curDb, collQueue, specQueue,
                   total_collections, successful, jobs, warnings, tally, now,
                   fs, last, target, masked>>

Next ==
    \/ ConnectOk
    \/ ConnectFail
    \/ ConnectRaise
    \/ ExportAllBegin
    \/ ExportDatabasesBegin
    \/ NextDatabase
    \/ ExportNext
    \/ FinishLoop
    \/ ExportDatabaseNone
    \/ ExportDatabaseBegin
    \/ ExportCollectionUsage
    \/ ExportCollectionNotFound
    \/ ExportCollectionSpecific
    \/ ExportCollectionsBegin
    \/ InvalidSpec
    \/ ExportSpec
    \/ FinishSpecs
    \/ CatalogError

Spec == Init /\ [][Next]_vars

(***************************************************************************)
(* A direct call of export_collection                                      *)
(***************************************************************************)
InitExport ==
    /\ pc = "call"
    /\ args = NoArgs
    /\ client = "open"
    /\ exitCode = -1
    /\ error = "none"
    /\ dbQueue = <<>>
    /\ curDb = <<>>
    /\ collQueue = <<>>
    /\ specQueue = <<>>
    /\ total_collections = 0
    /\ successful = 0
    /\ jobs = <<>>
    /\ warnings = [invalid |-> 0, notfound |-> 0, nocollections |-> 0]
    /\ tally = NoTally
    /\ now \in 0..MaxClock
    /\ fs = {}
    /\ last = NoLast
    /\ target = <<>>
    /\ masked = <<>>

\* export_collection(database_name, collection_name, show_progress)
CallExport ==
    /\ pc = "call"
    /\ \E db \in {DbAB, DbA}, coll \in {<<"c">>, <<"b", "/", "c">>},
          show_progress \in BOOLEAN, env \in CallEnvs :
        LET r == ExportCollection(db, coll, show_progress, env, now, fs) IN
        /\ fs' = r.files
        /\ last' = LastOf(db, coll, show_progress, r)
        /\ pc' = IF r.raised THEN "raised" ELSE "returned"
    /\ UNCHANGED <<args, client, exitCode, error, dbQueue, curDb, collQueue,
                   specQueue, total_collections, successful, jobs, warnings,
                   tally, now, target, masked>>

NextExport == CallExport

SpecExport == InitExport /\ [][NextExport]_vars

(***************************************************************************)
(* _mask_connection_string                                                 *)
(***************************************************************************)
Scheme == <<"m">>

\* connection targets: scheme://[user[:password]@]host[:port]/path, with
\* '@' allowed in the path or query and reserved characters kept out of the
\* user name and the password, as the URI format requires
Targets ==
    {t \in [user : SeqsUpTo({"u"}, MaxPart),
            password : SeqsUpTo({"s", "e"}, MaxPart),
            host : {<<"h">>, <<"h", ":", "2">>},
            path : SeqsUpTo({"d", "@"}, MaxPart)] :
        (t.user = <<>>) => (t.password = <<>>)}

UserInfo(t) ==
    IF t.user = <<>> THEN <<>>
    ELSE IF t.password = <<>> THEN t.user \o <<"@">>
    ELSE t.user \o <<":">> \o t.password \o <<"@">>

TargetString(t) ==
    Scheme \o <<":", "/", "/">> \o UserInfo(t) \o t.host \o <<"/">> \o t.path

IndexError == <<"IndexError">>

mask_connection_string(conn_string) ==
    IF Contains(conn_string, <<"@">>) /\ Contains(conn_string, <<":", "/", "/">>)
    THEN LET parts == SplitFirst(conn_string, <<"@">>) IN
         IF Contains(parts[1], <<":">>)
         THEN LET pieces == Split(parts[1], <<":", "/", "/">>) IN
              IF Len(pieces) < 2 THEN IndexError
              ELSE LET protocol_and_user == pieces[1] \o <<":", "/", "/">>
                       user_part == pieces[2]
                   IN  IF Contains(user_part, <<":">>)
                       THEN protocol_and_user \o Split(user_part, <<":">>)[1]
                                \o <<":", "*", "*", "*", "@">> \o parts[2]
                       ELSE protocol_and_user \o user_part \o <<"@">>
                                \o parts[2]
         ELSE conn_string
    ELSE conn_string

InitMask ==
    /\ pc = "mask"
    /\ args = NoArgs
    /\ client = "None"
    /\ exitCode = -1
    /\ error = "none"
    /\ dbQueue = <<>>
    /\ curDb = <<>>
    /\ collQueue = <<>>
    /\ specQueue = <<>>
    /\ total_collections = 0
    /\ successful = 0
    /\ jobs = <<>>
    /\ warnings = [invalid |-> 0, notfound |-> 0, nocollections |-> 0]
    /\ tally = NoTally
    /\ now = 0
    /\ fs = {}
    /\ last = NoLast
    /\ target \in Targets
    /\ masked = <<>>

\* display_conn = self.mask_connection_string(self.connection_string)
CallMask ==
    /\ pc = "mask"
    /\ masked' = mask_connection_string(TargetString(target))
    /\ pc' = "masked"
    /\ UNCHANGED <<args, client, exitCode, error, dbQueue, curDb, collQueue,
                   specQueue, total_collections, successful, jobs, warnings,
                   tally, now, fs, last, target>>

NextMask == CallMask

SpecMask == InitMask /\ [][NextMask]_vars

(***************************************************************************)
(* Properties                                                              *)
(***************************************************************************)
JobPairs(js) == [i \in 1..Len(js) |-> <<js[i].db, js[i].coll>>]

IsPrefix(s, t) == Len(s) <= Len(t) /\ SubSeq(t, 1, Len(s)) = s

\* the (database, collection) pairs of a list of databases, in order
RECURSIVE PairsOfDatabases(_)
PairsOfDatabases(dbs) ==
    IF dbs = <<>> THEN <<>>
    ELSE LET db == Head(dbs)
             colls == IF InSeq(db, get_databases) THEN get_collections(db)
                      ELSE <<>>
         IN  [i \in 1..Len(colls) |-> <<db, colls[i]>>]
                \o PairsOfDatabases(Tail(dbs))

\* the pairs of the --collections entries that contain a '.', in order
RECURSIVE PairsOfSpecs(_)
PairsOfSpecs(specs) ==
    IF specs = <<>> THEN <<>>
    ELSE LET spec == Head(specs)
             dot == Find(spec, <<".">>)
         IN  (IF dot = 0 THEN <<>>
              ELSE << <<SubSeq(spec, 1, dot - 1),
                        SubSeq(spec, dot + 1, Len(spec))>> >>)
                \o PairsOfSpecs(Tail(specs))

\* the jobs a multi-job mode has to run, whatever their outcomes
PlannedJobs ==
    IF args.mode = "all"
    THEN PairsOfDatabases(SelectSeq(get_databases,
                                    LAMBDA db : db \notin SystemDatabases))
    ELSE IF args.mode = "database" THEN PairsOfDatabases(<<args.database>>)
    ELSE IF args.mode = "databases" THEN PairsOfDatabases(args.databases)
    ELSE PairsOfSpecs(args.collections)

MultiJobModes == {"all", "database", "databases", "collections"}

\* the elements json.load finds in the file the latest job wrote
LastFileItems ==
    LET f == CHOOSE f \in FileAt(fs, last.path) : TRUE IN Parse(f.content).items

ElementsOf(docs) == [i \in 1..Len(docs) |-> Encode(docs[i])]

\* C1: within one run, two jobs for different (database, collection) pairs
\* never write the same output file path.
C1_UniqueOutputPaths ==
    \A i, j \in 1..Len(jobs) :
        (/\ jobs[i].opened
         /\ jobs[j].opened
         /\ <<jobs[i].db, jobs[i].coll>> # <<jobs[j].db, jobs[j].coll>>)
        => jobs[i].path # jobs[j].path

\* C2: when export_collection reports success for a non-empty collection,
\* the file at its path parses as a JSON array whose elements are the
\* documents the cursor yielded, one per document and in cursor order, and
\* the bulk and the streaming rendering of those documents parse alike.
C2_FileIsCursorArray ==
    (pc = "returned" /\ last.ok /\ last.count > 0)
    => /\ FileAt(fs, last.path) # {}
       /\ \A f \in FileAt(fs, last.path) :
            Parse(f.content) = [valid |-> TRUE, items |-> ElementsOf(last.docs)]
       /\ Parse(BulkContent(last.docs)) = Parse(StreamingContent(last.docs))

C2_Witness ==
    /\ pc = "returned"
    /\ last.ok
    /\ last.strategy = "streaming"
    /\ Len(last.docs) = 2
    /\ last.docs[1] # last.docs[2]

\* C3: in the modes that name a database or a collection, every job that is
\* started is for a database in the list of databases and a collection in
\* that database's list of collections.
C3_JobsAreValidated ==
    (args.mode \in {"database", "databases", "collection", "collections"})
    => \A i \in 1..Len(jobs) :
          /\ InSeq(jobs[i].db, get_databases)
          /\ InSeq(jobs[i].coll, get_collections(jobs[i].db))

\* C4: in ManyCollections mode the attempted number of the final tally is
\* the number of entries that contain the separator.
C4_AttemptedCountsValidEntries ==
    (args.mode = "collections" /\ tally.kind = "counts")
    => tally.attempted =
          Cardinality({i \in 1..Len(args.collections) :
                          Contains(args.collections[i], <<".">>)})

\* C5: whenever the process has terminated after a client handle was
\* created, close has been called on the handle.
C5_ClosedOnEveryExit ==
    (pc = "exited" /\ client # "None") => client = "closed"

\* C6: a failing job returns false without raising, the jobs run so far are
\* always the first of the planned jobs in order, a run that ends without a
\* connection, usage or catalog error has run all of them, and it exits 0.
C6_JobFailureIsContained ==
    /\ ~last.raised
    /\ error # "job"
    /\ (pc # "start" /\ args.mode \in MultiJobModes /\ error = "none")
        => IsPrefix(JobPairs(jobs), PlannedJobs)
    /\ (pc = "exited" /\ error = "none")
        => /\ exitCode = 0
           /\ args.mode \in MultiJobModes => JobPairs(jobs) = PlannedJobs

C6_Witness ==
    /\ pc = "exited"
    /\ exitCode = 0
    /\ Len(jobs) >= 2
    /\ ~jobs[1].ok
    /\ jobs[2].ok

\* C7: when export_collection reports success for a non-empty collection,
\* the number of documents it reports is the number of elements in the file.
C7_ReportedEqualsWritten ==
    (pc = "returned" /\ last.ok /\ last.count > 0)
    => last.reported = Len(LastFileItems)

\* the rendering the masking function is specified to return
ExpectedMask(t) ==
    IF t.password = <<>> THEN TargetString(t)
    ELSE Scheme \o <<":", "/", "/">> \o t.user \o <<":", "*", "*", "*", "@">>
            \o t.host \o <<"/">> \o t.path

\* C8: the masking function returns the target with the password replaced
\* by "***" and everything else preserved, and returns a target without
\* credentials unchanged.
C8_MaskAsSpecified ==
    (pc = "masked") => masked = ExpectedMask(target)

C10_EmptyIsSkippedAsSuccess ==
    [][/\ (Len(jobs') = Len(jobs) + 1 /\ last'.count = 0)
          => /\ fs' = fs
             /\ last'.ok
             /\ ~last'.opened
             /\ \/ successful' = successful + 1
                \/ args.mode = "collection" /\ tally'.kind = "complete"
       /\ (tally'.kind = "counts")
          => tally'.successful =
                Cardinality({i \in 1..Len(jobs') : jobs'[i].ok})]_vars

C10_Witness ==
    /\ pc = "exited"
    /\ tally.kind = "counts"
    /\ tally.successful = 1
    /\ Len(jobs) = 1
    /\ last.count = 0
    /\ fs = {}

====
